---- MODULE Spec2Model ----
(***************************************************************************)
(* A model of dwd.py: the station index built by scraping the two KL       *)
(* listing pages (_build_kl_file_index, memoized by lru_cache), the        *)
(* per-station downloader (download_station_kl), the file downloader       *)
(* (download_file) and the bulk downloader over a ThreadPool               *)
(* (download_all_kl_files).                                                *)
(*                                                                         *)
(* Strings are sequences of tokens.  A token is either a literal piece of  *)
(* text (kind "lit", its text in s) or one whole archive file name that    *)
(* the regular expressions of the index builder recognise: kind "hist" is  *)
(* tageswerte_KL_<id>_<von>_<bis>_hist.zip and kind "akt" is               *)
(* tageswerte_KL_<id>_akt.zip, with id a sequence of five digits.  String  *)
(* concatenation is \o, and "/" is the literal token Slash.                *)
(***************************************************************************)
EXTENDS Integers, Sequences, FiniteSets, TLC

VARIABLES
    cache,   \* lru_cache of _build_kl_file_index: <<>> or <<index>>
    first,   \* history: <<>> or <<the index the first successful builder call returned>>
    built,   \* the most recent call of _build_kl_file_index and what it did
    ret,     \* the outcome of the most recent call of a public function
    fs,      \* the files of the output directory: path -> content
    calls,   \* the download_file calls of the most recent public call, in order
    pool,    \* download_all_kl_files: the state of the call and of its ThreadPool
    wk       \* download_all_kl_files: the state of each worker thread

vars == <<cache, first, built, ret, fs, calls, pool, wk>>

(***************************************************************************)
(* Bounds of the model.                                                    *)
(***************************************************************************)
\* the largest number of links the two listing pages hold together
MaxFiles == 2
\* the largest n_jobs given to download_all_kl_files
MaxJobs == 2

(***************************************************************************)
(* Strings.                                                                *)
(***************************************************************************)
Lit(text) == [kind |-> "lit", s |-> text, id |-> <<>>, von |-> "", bis |-> ""]

Slash == Lit("/")

HistName(sid, von, bis) == [kind |-> "hist", s |-> "", id |-> sid, von |-> von, bis |-> bis]

AktName(sid) == [kind |-> "akt", s |-> "", id |-> sid, von |-> "", bis |-> ""]

BASE_URL == <<Lit("https://opendata.dwd.de/climate_environment/CDC"), Slash>>

\* url of line 34; line 44 appends the category's directory to the same text
KL_URL == BASE_URL \o <<Lit("observations_germany/climate/daily/kl"), Slash>>

HIST_URL == KL_URL \o <<Lit("historical"), Slash>>

\* the listing page of the "recent" directory, as the server names it
RECENT_URL == KL_URL \o <<Lit("recent"), Slash>>

\* the address line 35 fetches
STRAY_URL == BASE_URL \o <<Lit("recent"), Slash>>

\* os.path.basename: the text after the last "/"
RECURSIVE Basename(_)
Basename(str) ==
    IF str = <<>> THEN <<>>
    ELSE IF str[Len(str)] = Slash THEN <<>>
    ELSE Basename(SubSeq(str, 1, Len(str) - 1)) \o <<str[Len(str)]>>

\* int() of a string of decimal digits
RECURSIVE ToInt(_)
ToInt(digits) ==
    IF digits = <<>> THEN 0
    ELSE 10 * ToInt(SubSeq(digits, 1, Len(digits) - 1)) + digits[Len(digits)]

(***************************************************************************)
(* The regular expressions hist_re and akt_re, named by their category.    *)
(***************************************************************************)
Categories == <<"historical", "recent">>

\* zip(['historical', 'recent'], [hist_re, akt_re]): the pattern of a category
PatternOf(d) == IF d = "historical" THEN "hist" ELSE "akt"

\* r.search(href), which find_all(href=r) applies: the pattern occurs somewhere
Search(r, href) == \E i \in 1..Len(href) : href[i].kind = r

\* r.match(href): the pattern occurs at the start
Match(r, href) == Len(href) >= 1 /\ href[1].kind = r

\* m.groups() of a match at the start of href
Groups(r, href) ==
    IF r = "hist" THEN <<href[1].id, href[1].von, href[1].bis>> ELSE <<href[1].id>>

(***************************************************************************)
(* The index: a defaultdict(dict), station id -> category -> url.  Python  *)
(* dicts keep insertion order: order lists the keys as they were added.    *)
(***************************************************************************)
EmptyDict == [c \in {} |-> <<>>]

EmptyIndex == [order |-> <<>>, map |-> [k \in {} |-> EmptyDict]]

Keys(index) == DOMAIN index.map

\* index[k][d] = url on the defaultdict
Put(index, k, d, url) ==
    LET inner == IF k \in Keys(index) THEN index.map[k] ELSE EmptyDict
        new == [c \in DOMAIN inner \cup {d} |-> IF c = d THEN url ELSE inner[c]]
    IN  [order |-> IF k \in Keys(index) THEN index.order ELSE Append(index.order, k),
         map |-> [x \in Keys(index) \cup {k} |-> IF x = k THEN new ELSE index.map[x]]]

\* dict.items() / dict.values() of one station's entry, in insertion order:
\* the builder's outer loop adds "historical" before "recent"
CatsOf(index, k) == SelectSeq(Categories, LAMBDA c : c \in DOMAIN index.map[k])

(***************************************************************************)
(* The network.  The server lists the files of its two directories: an     *)
(* archive is a sequence of [dir, href].  A fetch answers with a status    *)
(* and, when the status is a success, the page of links of the address (an *)
(* error page holds no link).  What the server lists and answers is an     *)
(* input of each call.                                                     *)
(***************************************************************************)
Statuses == {200, 404}

\* Response.raise_for_status raises for 400 <= status < 600
IsError(status) == status >= 400 /\ status < 600

Dirs == {"historical", "recent"}

Listing(site, dir) ==
    LET entries == SelectSeq(site, LAMBDA e : e.dir = dir)
    IN  [i \in 1..Len(entries) |-> entries[i].href]

PageAt(site, url) ==
    IF url = HIST_URL THEN Listing(site, "historical")
    ELSE IF url = RECENT_URL THEN Listing(site, "recent")
    ELSE <<>>

\* the links of requests.get(url).text, the server answering with status st
Get(site, url, st) == IF IsError(st) THEN <<>> ELSE PageAt(site, url)

(***************************************************************************)
(* _build_kl_file_index                                                    *)
(***************************************************************************)
\* line 44: the address fetched for category d, and the base of its urls
ListingUrl(d) == HIST_URL

\* AddLink storing the listing's address without the link's href
AddLinkNoHref(index, href, d, r, url) ==
    IF ~Match(r, href) THEN [exc |-> "AttributeError", index |-> index]
    ELSE IF Len(Groups(r, href)) # 3 THEN [exc |-> "ValueError", index |-> index]
    ELSE [exc |-> "", index |-> Put(index, ToInt(Groups(r, href)[1]), d, url)]

\* lines 49-52, one link: the index with the link added, or the exception raised
AddLink(index, href, d, r, url) ==
    IF ~Match(r, href) THEN [exc |-> "AttributeError", index |-> index]
    ELSE IF Len(Groups(r, href)) # 3 THEN [exc |-> "ValueError", index |-> index]
    ELSE [exc |-> "", index |-> Put(index, ToInt(Groups(r, href)[1]), d, url \o href)]

\* lines 48-52: the loop over the links find_all returned
RECURSIVE AddLinks(_, _, _, _, _)
AddLinks(index, links, d, r, url) ==
    IF links = <<>> THEN [exc |-> "", index |-> index]
    ELSE LET one == AddLink(index, Head(links), d, r, url)
         IN  IF one.exc # "" THEN one ELSE AddLinks(one.index, Tail(links), d, r, url)

\* lines 42-52: the loop over the categories from the i-th on; sts[d] is the
\* status the server answers the fetch of category d with
RECURSIVE BuildFrom(_, _, _, _, _)
BuildFrom(i, index, fetched, site, sts) ==
    IF i > Len(Categories) THEN [exc |-> "", index |-> index, fetched |-> fetched]
    ELSE LET d == Categories[i]
             r == PatternOf(d)
             url == ListingUrl(d)
             links == SelectSeq(Get(site, url, sts[d]), LAMBDA href : Search(r, href))
             done == AddLinks(index, links, d, r, url)
             log == Append(fetched, [url |-> url, status |-> sts[d]])
         IN  IF done.exc # "" THEN [exc |-> done.exc, index |-> done.index, fetched |-> log]
             ELSE BuildFrom(i + 1, done.index, log, site, sts)

\* lines 34-54: the body of the function; line 35 fetches an address the
\* server has no directory at, and its answer is not looked at
BuildIndex(site, sts) ==
    BuildFrom(1, EmptyIndex, <<[url |-> STRAY_URL, status |-> 404]>>, site, sts)

\* the statuses the server may answer the listing fetches of one build with
BuildStatuses == [{"historical", "recent"} -> Statuses]

\* CacheHit without the lru_cache decorator: every call runs the body
CacheNever == FALSE

\* lru_cache(maxsize=1) around the body: a hit returns the stored value and
\* runs nothing, a miss runs the body and stores what it returns; an exception
\* stores nothing.
CacheHit == cache # <<>>

\* The record of a call that hit: what it returned; changed tells whether the
\* server lists something else by now, which the call does not look at.
Hit(changed) ==
    [cache |-> cache,
     call |-> [state |-> "ok", exc |-> "", index |-> cache[1], fetched |-> <<>>,
               stale |-> changed]]

\* The record of a call that missed, the server listing site and answering
\* with sts: what the call returned or raised, and what it fetched.
Miss(site, sts) ==
    LET b == BuildIndex(site, sts)
    IN  IF b.exc # ""
        THEN [cache |-> cache,
              call |-> [state |-> "raise", exc |-> b.exc, index |-> EmptyIndex,
                        fetched |-> b.fetched, stale |-> FALSE]]
        ELSE [cache |-> <<b.index>>,
              call |-> [state |-> "ok", exc |-> "", index |-> b.index,
                        fetched |-> b.fetched, stale |-> FALSE]]

NoBuild == [state |-> "none", exc |-> "", index |-> EmptyIndex, fetched |-> <<>>,
            stale |-> FALSE]

\* the history of the first index a builder call returned
FirstAfter(call) == IF first = <<>> /\ call.state = "ok" THEN <<call.index>> ELSE first

(***************************************************************************)
(* The archives the server may list.                                       *)
(***************************************************************************)
StationIds == {<<0, 0, 0, 1, 1>>, <<0, 0, 0, 1, 2>>}

FileNames == {HistName(sid, "19500101", "20181231") : sid \in StationIds}
                 \cup {AktName(sid) : sid \in StationIds}

\* a link to a file: its name alone, its name after other text, its name
\* before a further path segment; and a link to something else
Hrefs == {<<f>> : f \in FileNames}
             \cup {<<Lit("x"), f>> : f \in FileNames}
             \cup {<<f, Slash, Lit("x")>> : f \in FileNames}
             \cup {<<Lit("readme.txt")>>}

Entries == [dir : Dirs, href : Hrefs]

Sites == UNION {[1..n -> Entries] : n \in 0..MaxFiles}

(***************************************************************************)
(* The state after import: nothing cached, nothing called, no file yet.    *)
(***************************************************************************)
NoCall == [op |-> "none", state |-> "none", exc |-> "", arg |-> 0, files |-> <<>>, site |-> <<>>]

NoPool == [pc |-> "idle", urls |-> <<>>, tasks |-> <<>>, bar |-> 0, left |-> 0,
           success |-> TRUE, njobs |-> 0]

Init ==
    /\ cache = <<>>
    /\ first = <<>>
    /\ built = NoBuild
    /\ ret = NoCall
    /\ fs = [p \in {} |-> ""]
    /\ calls = <<>>
    /\ pool = NoPool
    /\ wk = <<>>

(***************************************************************************)
(* _build_kl_file_index() as the memoized function: every way one call of  *)
(* it can go from the current state, over what the server lists and        *)
(* answers.                                                                *)
(***************************************************************************)
BuilderCalls ==
    IF CacheHit THEN {Hit(changed) : changed \in BOOLEAN}
    ELSE {Miss(site, sts) : site \in Sites, sts \in BuildStatuses}

(***************************************************************************)
(* A call of _build_kl_file_index.  The record of the call keeps the       *)
(* archive the server listed while a call that returned ran the body.      *)
(***************************************************************************)
BuildReturns(b, site) ==
    /\ cache' = b.cache
    /\ built' = b.call
    /\ first' = FirstAfter(b.call)
    /\ ret' = [op |-> "build", state |-> b.call.state, exc |-> b.call.exc, arg |-> 0,
               files |-> <<>>, site |-> IF b.call.state = "ok" THEN site ELSE <<>>]
    /\ calls' = <<>>
    /\ UNCHANGED <<fs, pool, wk>>

CallBuild ==
    \/ CacheHit /\ \E changed \in BOOLEAN : BuildReturns(Hit(changed), <<>>)
    \/ ~CacheHit /\ \E site \in Sites, sts \in BuildStatuses : BuildReturns(Miss(site, sts), site)

(***************************************************************************)
(* download_file                                                           *)
(***************************************************************************)
Bodies == {"b1", "b2"}

\* os.path.join('data', 'kl'), made absolute, and the separator join adds
OUTDIR == <<Lit("data/kl"), Slash>>

\* OutFile joining the whole url instead of its base name
OutFileNoBasename(url) == OUTDIR \o url

\* os.path.join(outdir, os.path.basename(url))
OutFile(url) == OUTDIR \o Basename(url)

\* open(outfile, 'wb') and f.write(content): the file created or truncated,
\* then holding content
WriteFile(files, outfile, content) ==
    [p \in DOMAIN files \cup {outfile} |-> IF p = outfile THEN content ELSE files[p]]

\* DownloadFile opening the output file before it looks at the status
DownloadFileOpenFirst(files, url, outfile, st, body) ==
    IF IsError(st) THEN [exc |-> "HTTPError", files |-> WriteFile(files, outfile, "")]
    ELSE [exc |-> "", files |-> WriteFile(files, outfile, body)]

\* lines 84-88, the server answering with status st and content body: the
\* exception raised, if any, and the files afterwards
DownloadFile(files, url, outfile, st, body) ==
    IF IsError(st) THEN [exc |-> "HTTPError", files |-> files]
    ELSE [exc |-> "", files |-> WriteFile(files, outfile, body)]

\* the record of one download_file call
CallOf(url, outfile, st, body) == [url |-> url, outfile |-> outfile, status |-> st, body |-> body]

(***************************************************************************)
(* download_station_kl                                                     *)
(***************************************************************************)
\* Lookup by index[station_id], which makes the defaultdict add an empty entry
LookupSubscript(index, station_id) ==
    [found |-> TRUE,
     index |-> IF station_id \in Keys(index) THEN index
               ELSE [order |-> Append(index.order, station_id),
                     map |-> [x \in Keys(index) \cup {station_id} |->
                                 IF x = station_id THEN EmptyDict ELSE index.map[x]]]]

\* line 71: station_id not in index.  The test adds no entry to the
\* defaultdict; index is the mapping after the test.
Lookup(index, station_id) == [found |-> station_id \in Keys(index), index |-> index]

\* lines 74-78: the loop over the items of the station's entry from the i-th
\* on; resp[d] is the server's answer, <<status, body>>, for the url of d
RECURSIVE StationLoop(_, _, _, _, _, _)
StationLoop(i, items, files, written, log, resp) ==
    IF i > Len(items) THEN [exc |-> "", fs |-> files, files |-> written, calls |-> log]
    ELSE LET url == items[i].url
             outfile == OutFile(url)
             st == resp[items[i].d][1]
             body == resp[items[i].d][2]
             got == DownloadFile(files, url, outfile, st, body)
             log2 == Append(log, CallOf(url, outfile, st, body))
         IN  IF got.exc # ""
             THEN [exc |-> got.exc, fs |-> got.files, files |-> written, calls |-> log2]
             ELSE StationLoop(i + 1, items, got.files, Append(written, outfile), log2, resp)

\* index[station_id].items()
Items(index, station_id) ==
    LET cats == CatsOf(index, station_id)
    IN  [i \in 1..Len(cats) |-> [d |-> cats[i], url |-> index.map[station_id][cats[i]]]]

\* the station identifiers a caller asks for
StationArgs == {ToInt(sid) : sid \in StationIds}

CallStation ==
    \E station_id \in StationArgs, b \in BuilderCalls :
        /\ built' = b.call
        /\ first' = FirstAfter(b.call)
        /\ IF b.call.state = "raise"
           THEN /\ cache' = b.cache
                /\ ret' = [op |-> "station", state |-> "raise", exc |-> b.call.exc,
                           arg |-> station_id, files |-> <<>>, site |-> <<>>]
                /\ calls' = <<>>
                /\ fs' = fs
           ELSE LET look == Lookup(b.call.index, station_id)
                IN  /\ cache' = <<look.index>>
                    /\ IF ~look.found
                       THEN /\ ret' = [op |-> "station", state |-> "raise", exc |-> "KeyError",
                                       arg |-> station_id, files |-> <<>>, site |-> <<>>]
                            /\ calls' = <<>>
                            /\ fs' = fs
                       ELSE \E resp \in [DOMAIN look.index.map[station_id] -> Statuses \X Bodies] :
                                LET run == StationLoop(1, Items(look.index, station_id), fs,
                                                       <<>>, <<>>, resp)
                                IN  /\ ret' = [op |-> "station",
                                               state |-> IF run.exc = "" THEN "ok" ELSE "raise",
                                               exc |-> run.exc, arg |-> station_id,
                                               files |-> IF run.exc = "" THEN run.files ELSE <<>>,
                                               site |-> <<>>]
                                    /\ calls' = run.calls
                                    /\ fs' = run.fs
        /\ UNCHANGED <<pool, wk>>

(***************************************************************************)
(* A call of download_file by itself.                                      *)
(***************************************************************************)
\* the addresses and paths a caller gives it
FileUrls == {HIST_URL \o <<f>> : f \in FileNames}

CallDownloadFile ==
    \E url \in FileUrls, from \in FileUrls, st \in Statuses, body \in Bodies :
        LET outfile == OutFile(from)
            got == DownloadFile(fs, url, outfile, st, body)
        IN  /\ fs' = got.files
            /\ calls' = <<CallOf(url, outfile, st, body)>>
            /\ ret' = [op |-> "download_file", state |-> IF got.exc = "" THEN "ok" ELSE "raise",
                       exc |-> got.exc, arg |-> 0, files |-> <<>>, site |-> <<>>]
            /\ UNCHANGED <<cache, first, built, pool, wk>>

(***************************************************************************)
(* download_all_kl_files.  The call builds the index, flattens it, starts  *)
(* a ThreadPool of n_jobs workers and maps dl over the urls.  Pool.map     *)
(* cuts the list into chunks, one task each; a worker takes a task and     *)
(* runs dl on its items in turn, an exception ending the task; the call    *)
(* resumes when every task has ended, and raises the first exception a     *)
(* task ended with.  A worker's steps are the fetch, the opening of the    *)
(* output file, the write that closes it, and bar.update.                  *)
(***************************************************************************)
\* lines 96-100: every url of the index, station by station
RECURSIVE FlattenFrom(_, _)
FlattenFrom(index, i) ==
    IF i > Len(index.order) THEN <<>>
    ELSE LET items == Items(index, index.order[i])
         IN  [j \in 1..Len(items) |-> items[j].url] \o FlattenFrom(index, i + 1)

\* Flatten keeping the urls of the index's first station only
FlattenFirstStation(index) ==
    IF index.order = <<>> THEN <<>>
    ELSE LET items == Items(index, index.order[1])
         IN  [j \in 1..Len(items) |-> items[j].url]

Flatten(index) == FlattenFrom(index, 1)

\* Pool.map's chunksize for n items and a pool of n_jobs workers
ChunkSize(n, n_jobs) ==
    IF n = 0 THEN 0
    ELSE IF n % (n_jobs * 4) # 0 THEN (n \div (n_jobs * 4)) + 1 ELSE n \div (n_jobs * 4)

\* the tasks of Pool.map: the list cut into chunks of size
RECURSIVE Chunks(_, _)
Chunks(urls, size) ==
    IF urls = <<>> THEN <<>>
    ELSE IF Len(urls) <= size THEN <<urls>>
    ELSE <<SubSeq(urls, 1, size)>> \o Chunks(SubSeq(urls, size + 1, Len(urls)), size)

IdleWorker == [pc |-> "idle", chunk |-> <<>>, body |-> ""]

\* TaskEnded dropping the exception a task ended with
TaskEndedDropped(p, success) == [p EXCEPT !.left = p.left - 1]

\* MapResult._set: one task has ended, with success or with an exception
TaskEnded(p, success) ==
    [p EXCEPT !.left = p.left - 1, !.success = p.success /\ success]

\* line 91-109 up to the start of pool.map
BulkStart ==
    /\ pool.pc = "idle"
    /\ \E n_jobs \in 1..MaxJobs, b \in BuilderCalls :
           /\ cache' = b.cache
           /\ built' = b.call
           /\ first' = FirstAfter(b.call)
           /\ calls' = <<>>
           /\ fs' = fs
           /\ IF b.call.state = "raise"
              THEN /\ pool' = [pool EXCEPT !.pc = "raised", !.njobs = n_jobs]
                   /\ ret' = [op |-> "all", state |-> "raise", exc |-> b.call.exc,
                              arg |-> n_jobs, files |-> <<>>, site |-> <<>>]
                   /\ wk' = wk
              ELSE LET urls == Flatten(b.call.index)
                       tasks == Chunks(urls, ChunkSize(Len(urls), n_jobs))
                   IN  /\ pool' = [pc |-> "running", urls |-> urls, tasks |-> tasks, bar |-> 0,
                                   left |-> Len(tasks), success |-> TRUE, njobs |-> n_jobs]
                       /\ ret' = [op |-> "all", state |-> "running", exc |-> "",
                                  arg |-> n_jobs, files |-> <<>>, site |-> <<>>]
                       /\ wk' = [w \in 1..n_jobs |-> IdleWorker]

\* a worker takes the next task
TakeTask(w) ==
    /\ pool.pc = "running"
    /\ wk[w].pc = "idle"
    /\ pool.tasks # <<>>
    /\ wk' = [wk EXCEPT ![w] = [pc |-> "get", chunk |-> Head(pool.tasks), body |-> ""]]
    /\ pool' = [pool EXCEPT !.tasks = Tail(pool.tasks)]
    /\ UNCHANGED <<cache, first, built, ret, fs, calls>>

\* lines 84-85 in dl: the fetch and raise_for_status; an error ends the task
Fetch(w) ==
    /\ wk[w].pc = "get"
    /\ \E st \in Statuses, body \in Bodies :
           LET url == Head(wk[w].chunk)
           IN  /\ calls' = Append(calls, CallOf(url, OutFile(url), st, body))
               /\ IF IsError(st)
                  THEN /\ wk' = [wk EXCEPT ![w] = IdleWorker]
                       /\ pool' = TaskEnded(pool, FALSE)
                  ELSE /\ wk' = [wk EXCEPT ![w] = [@ EXCEPT !.pc = "open", !.body = body]]
                       /\ pool' = pool
    /\ UNCHANGED <<cache, first, built, ret, fs>>

\* line 87 in dl: open(outfile, 'wb') creates or truncates the file
OpenFile(w) ==
    /\ wk[w].pc = "open"
    /\ fs' = WriteFile(fs, OutFile(Head(wk[w].chunk)), "")
    /\ wk' = [wk EXCEPT ![w] = [@ EXCEPT !.pc = "write"]]
    /\ UNCHANGED <<cache, first, built, ret, calls, pool>>

\* line 88 in dl: f.write(ret.content), and the file is closed
WriteBody(w) ==
    /\ wk[w].pc = "write"
    /\ fs' = WriteFile(fs, OutFile(Head(wk[w].chunk)), wk[w].body)
    /\ wk' = [wk EXCEPT ![w] = [@ EXCEPT !.pc = "update"]]
    /\ UNCHANGED <<cache, first, built, ret, calls, pool>>

\* line 106: bar.update(1); then the next item of the task, or the task ends
Update(w) ==
    /\ wk[w].pc = "update"
    /\ IF Len(wk[w].chunk) > 1
       THEN /\ wk' = [wk EXCEPT ![w] = [pc |-> "get", chunk |-> Tail(wk[w].chunk), body |-> ""]]
            /\ pool' = [pool EXCEPT !.bar = pool.bar + 1]
       ELSE /\ wk' = [wk EXCEPT ![w] = IdleWorker]
            /\ pool' = TaskEnded([pool EXCEPT !.bar = pool.bar + 1], TRUE)
    /\ UNCHANGED <<cache, first, built, ret, fs, calls>>

\* line 109: pool.map resumes when every task has ended, and the call
\* returns, or raises what a task raised
BulkReturn ==
    /\ pool.pc = "running"
    /\ pool.left = 0
    /\ pool' = [pool EXCEPT !.pc = IF pool.success THEN "returned" ELSE "raised"]
    /\ ret' = [ret EXCEPT !.state = IF pool.success THEN "ok" ELSE "raise",
                          !.exc = IF pool.success THEN "" ELSE "HTTPError"]
    /\ UNCHANGED <<cache, first, built, fs, calls, wk>>

Worker(w) == TakeTask(w) \/ Fetch(w) \/ OpenFile(w) \/ WriteBody(w) \/ Update(w)

NextBulk == BulkStart \/ BulkReturn \/ \E w \in DOMAIN wk : Worker(w)

SpecBulk == Init /\ [][NextBulk]_vars

(***************************************************************************)
(* The sequential use of the module: calls of _build_kl_file_index and of  *)
(* download_station_kl, in any order.                                      *)
(***************************************************************************)
Next == CallBuild \/ CallStation

Spec == Init /\ [][Next]_vars

(***************************************************************************)
(* Calls of download_file by itself.                                       *)
(***************************************************************************)
NextFile == CallDownloadFile

SpecFile == Init /\ [][NextFile]_vars

(***************************************************************************)
(* Properties of the index builder.                                        *)
(***************************************************************************)
\* the listing fetches (line 45) of the most recent builder call
ListingFetches == {i \in DOMAIN built.fetched : i >= 2}

\* the most recent call was one of _build_kl_file_index that ran the body,
\* and every listing fetch succeeded
BuiltFromListings ==
    /\ ret.op = "build"
    /\ built.state = "ok"
    /\ built.fetched # <<>>
    /\ \A i \in ListingFetches : ~IsError(built.fetched[i].status)

\* the listing page of category d
CategoryUrl(d) == KL_URL \o <<Lit(d), Slash>>

\* href is exactly one file name of the historical pattern
IsHistLink(href) == Len(href) = 1 /\ href[1].kind = "hist"

\* C1: every builder call that returns, returns the mapping the first
\* returning call returned; once a call has returned, every later call returns
\* and fetches no listing page, whatever the server lists by then.
C1_Memoized ==
    [][/\ built'.state = "ok" => first' # <<>> /\ built'.index = first'[1]
       /\ first # <<>> => built'.state = "ok" /\ built'.fetched = <<>>]_vars

\* a later call returned the first mapping while the server listed something else
C1_Witness ==
    /\ first # <<>>
    /\ built.state = "ok"
    /\ built.fetched = <<>>
    /\ built.stale
    /\ built.index = first[1]
    /\ Keys(built.index) # {}

\* C4: when both listings hold only links that are exactly historical file
\* names, the keys of the built index are exactly the integers of the station
\* ids linked from the historical listing ("00011" gives 11), and each key maps
\* to exactly {"historical": historical listing url + href} for the last link
\* of its station.
C4_HistoricalOnly ==
    LET links == Listing(ret.site, "historical")
        key(i) == ToInt(links[i][1].id)
    IN  (BuiltFromListings /\ \A i \in DOMAIN ret.site : IsHistLink(ret.site[i].href))
        => /\ Keys(built.index) = {key(i) : i \in DOMAIN links}
           /\ \A i \in DOMAIN links :
                  /\ links[i][1].id = <<0, 0, 0, 1, 1>> => key(i) = 11
                  /\ (\A j \in DOMAIN links : j > i => key(j) # key(i))
                     => built.index.map[key(i)] = [c \in {"historical"} |-> HIST_URL \o links[i]]

\* one historical link for station "00011" gave {11: {"historical": url}}
C4_Witness ==
    /\ BuiltFromListings
    /\ ret.site = <<[dir |-> "historical",
                       href |-> <<HistName(<<0, 0, 0, 1, 1>>, "19500101", "20181231")>>]>>
    /\ Keys(built.index) = {11}
    /\ DOMAIN built.index.map[11] = {"historical"}

\* C5: a build fetches the listing page of each category, and every link of
\* that page that matches the category's pattern is recorded under
\* (int(station id), category) with a url of that category's listing page.
C5_EachCategoryOwnListing ==
    BuiltFromListings
    => \A d \in {"historical", "recent"} :
           LET links == Listing(ret.site, d)
           IN  /\ \E i \in ListingFetches : built.fetched[i].url = CategoryUrl(d)
               /\ \A i \in DOMAIN links :
                      Match(PatternOf(d), links[i])
                      => LET k == ToInt(links[i][1].id)
                         IN  /\ k \in Keys(built.index)
                             /\ d \in DOMAIN built.index.map[k]
                             /\ \E j \in DOMAIN links :
                                    built.index.map[k][d] = CategoryUrl(d) \o links[j]

\* C6: a build one of whose listing fetches was answered with an error status
\* raises, and stores nothing in the cache.
C6_FetchFailureRaises ==
    (\E i \in ListingFetches : IsError(built.fetched[i].status))
    => built.state = "raise" /\ cache = <<>>

(***************************************************************************)
(* Properties of the station downloader.                                   *)
(***************************************************************************)
\* C2: a call for a station of the index, all of whose fetches succeed,
\* returns; it calls download_file once per category of the station, with the
\* station's urls, each into the output directory under the url's base name;
\* the files written are as many as the categories and hold what was fetched;
\* the list returned is the list of the paths written.
C2_StationWrites ==
    (/\ ret.op = "station"
     /\ built.state = "ok"
     /\ ret.arg \in Keys(built.index)
     /\ \A i \in DOMAIN calls : ~IsError(calls[i].status))
    => LET entry == built.index.map[ret.arg]
       IN  /\ ret.state = "ok"
           /\ Len(calls) = Cardinality(DOMAIN entry)
           /\ {calls[i].url : i \in DOMAIN calls} = {entry[c] : c \in DOMAIN entry}
           /\ Cardinality({calls[i].outfile : i \in DOMAIN calls}) = Cardinality(DOMAIN entry)
           /\ \A i \in DOMAIN calls :
                  /\ calls[i].outfile = OUTDIR \o Basename(calls[i].url)
                  /\ calls[i].outfile \in DOMAIN fs
                  /\ fs[calls[i].outfile] = calls[i].body
           /\ ret.files = [i \in DOMAIN calls |-> calls[i].outfile]

\* a station with a category was downloaded
C2_Witness ==
    /\ ret.op = "station"
    /\ ret.state = "ok"
    /\ ret.arg \in Keys(built.index)
    /\ Len(ret.files) >= 1
    /\ Len(calls) = Len(ret.files)

\* C3: a call for a station that is not a key of the index raises KeyError,
\* calls download_file not once, leaves every file as it was, and leaves the
\* index as it was: the station is not a key afterwards either.
C3_AbsentStation ==
    [][(/\ ret'.op = "station"
        /\ built'.state = "ok"
        /\ ret'.arg \notin Keys(built'.index))
       => /\ ret'.state = "raise"
          /\ ret'.exc = "KeyError"
          /\ calls' = <<>>
          /\ fs' = fs
          /\ cache' = <<built'.index>>
          /\ ret'.arg \notin Keys(cache'[1])]_vars

\* a station was asked for that the index, which has other stations, lacks
C3_Witness ==
    /\ ret.op = "station"
    /\ ret.exc = "KeyError"
    /\ built.state = "ok"
    /\ Keys(built.index) # {}
    /\ ret.arg \notin Keys(built.index)
    /\ fs # <<>>

(***************************************************************************)
(* Properties of the file downloader.                                      *)
(***************************************************************************)
\* C9: download_file raises exactly when the status is an error; then every
\* file is as it was before the call (the output path is not created, not
\* truncated); otherwise the output path holds exactly the body fetched and
\* every other file is as it was.
C9_DownloadFile ==
    [][ret'.op = "download_file"
       => LET c == calls'[1]
          IN  /\ ret'.state = "raise" <=> IsError(c.status)
              /\ IsError(c.status) => fs' = fs /\ ret'.exc = "HTTPError"
              /\ ~IsError(c.status)
                 => /\ DOMAIN fs' = DOMAIN fs \cup {c.outfile}
                    /\ fs'[c.outfile] = c.body
                    /\ \A p \in DOMAIN fs : p # c.outfile => fs'[p] = fs[p]]_vars

\* a failed download left an existing file of the same path with its content
C9_Witness ==
    /\ ret.op = "download_file"
    /\ ret.state = "raise"
    /\ calls[1].outfile \in DOMAIN fs
    /\ fs[calls[1].outfile] # calls[1].body

(***************************************************************************)
(* Properties of the bulk downloader.                                      *)
(***************************************************************************)
\* the (station, category) pairs of the index the call flattened
UrlSlots == UNION {{<<k, c>> : c \in DOMAIN built.index.map[k]} : k \in Keys(built.index)}

BulkEnded == pool.pc \in {"returned", "raised"}

SomeDownloadFailed == \E i \in DOMAIN calls : IsError(calls[i].status)

\* C7: when the call has ended and every fetch succeeded, it has returned,
\* download_file was called exactly once for each url of the index and not
\* otherwise, N times in all, and the bar was updated N times; for every
\* n_jobs and every order of the workers' steps.
C7_BulkDownloadsAll ==
    (BulkEnded /\ built.state = "ok" /\ ~SomeDownloadFailed)
    => /\ pool.pc = "returned"
       /\ Len(calls) = Cardinality(UrlSlots)
       /\ \A slot \in UrlSlots :
              Cardinality({i \in DOMAIN calls :
                              calls[i].url = built.index.map[slot[1]][slot[2]]}) = 1
       /\ pool.bar = Cardinality(UrlSlots)

\* a pool of one worker downloaded two urls and updated the bar twice
C7_Witness ==
    /\ pool.pc = "returned"
    /\ pool.njobs = 1
    /\ Cardinality(UrlSlots) = 2
    /\ Len(calls) = 2
    /\ pool.bar = 2

\* the steps a running call still has to take at most: a take and four steps
\* an item for the tasks not taken, the rest of each worker's task, the return
RECURSIVE QueuedSteps(_)
QueuedSteps(tasks) ==
    IF tasks = <<>> THEN 0 ELSE 1 + 4 * Len(Head(tasks)) + QueuedSteps(Tail(tasks))

WorkerSteps(w) ==
    CASE wk[w].pc = "idle" -> 0
      [] wk[w].pc = "get" -> 4 * Len(wk[w].chunk)
      [] wk[w].pc = "open" -> 4 * Len(wk[w].chunk) - 1
      [] wk[w].pc = "write" -> 4 * Len(wk[w].chunk) - 2
      [] wk[w].pc = "update" -> 4 * Len(wk[w].chunk) - 3

RECURSIVE WorkersSteps(_)
WorkersSteps(n) == IF n = 0 THEN 0 ELSE WorkerSteps(n) + WorkersSteps(n - 1)

StepsLeft ==
    IF pool.pc = "running" THEN 1 + QueuedSteps(pool.tasks) + WorkersSteps(pool.njobs) ELSE 0

\* C8: a call that returns has made all N downloads and none failed; a call
\* one of whose downloads failed does not return normally, so that when it
\* ends it raises; and a started call ends: while it runs a step can always be
\* taken, and every step leaves fewer steps to take.
C8_CompletesOrRaises ==
    /\ [](/\ pool.pc = "returned"
             => Len(calls) = Cardinality(UrlSlots) /\ ~SomeDownloadFailed
          /\ SomeDownloadFailed => pool.pc # "returned"
          /\ BulkEnded /\ built.state = "ok" /\ SomeDownloadFailed
             => pool.pc = "raised" /\ ret.state = "raise"
          /\ pool.pc = "running" => ENABLED (BulkReturn \/ \E w \in DOMAIN wk : Worker(w)))
    /\ [][pool.pc = "running" => StepsLeft' < StepsLeft]_vars

\* a pool of two workers: one download failed, one succeeded, the call raised
C8_Witness ==
    /\ pool.pc = "raised"
    /\ pool.njobs = 2
    /\ SomeDownloadFailed
    /\ \E i \in DOMAIN calls : ~IsError(calls[i].status)

\* C10: no two workers have the same output path open for writing at the
\* same time.
C10_NoSharedOutputPath ==
    \A v, w \in DOMAIN wk :
        (v # w /\ wk[v].pc = "write" /\ wk[w].pc = "write")
        => OutFile(Head(wk[v].chunk)) # OutFile(Head(wk[w].chunk))

====
